---- MODULE Spec2Model ----
(***************************************************************************)
(* Model of the AI Trading Analyzer API (server.py): the POST /api/upload  *)
(* handler upload_chart, its helpers validate_image and                    *)
(* analyze_trading_chart, and the library calls they make (UploadFile,     *)
(* PIL.Image, openai client), one request at a time.                       *)
(*                                                                         *)
(* Python strings that the code takes apart (content type, filename,       *)
(* environment values, timestamps) are sequences of one-character strings. *)
(* Python's None is the one-element sequence None, which no character      *)
(* sequence equals.  Messages built with f-strings are sequences of parts. *)
(***************************************************************************)
EXTENDS Integers, Sequences, FiniteSets, TLC

\* ------------------------------------------------------------------------
\* Bounds of the model
\* ------------------------------------------------------------------------
\* Largest small side (pixels) of an uploaded image.
MaxSide == 3

\* Largest small value of MAX_IMAGE_DIMENSION that the environment sets.
MaxDim == 2

\* ------------------------------------------------------------------------
\* Python values
\* ------------------------------------------------------------------------
None == <<"None">>

Digits == <<"0", "1", "2", "3", "4", "5", "6", "7", "8", "9">>

IsDigit(c) == \E i \in 1..10 : Digits[i] = c

DigitVal(c) == (CHOOSE i \in 1..10 : Digits[i] = c) - 1

\* str.startswith
StartsWith(s, p) == Len(s) >= Len(p) /\ SubSeq(s, 1, Len(p)) = p

\* Truthiness of an optional string: None and "" are falsy.
Truthy(s) == s # None /\ s # <<>>

\* int(str) for the strings the environment can hold: decimal digits with
\* an optional sign; anything else raises ValueError.
IntParses(s) ==
    /\ s # None
    /\ LET body == IF Len(s) > 0 /\ s[1] \in {"-", "+"} THEN Tail(s) ELSE s
       IN  Len(body) > 0 /\ \A i \in 1..Len(body) : IsDigit(body[i])

RECURSIVE DigitsToInt(_)
DigitsToInt(s) ==
    IF s = <<>> THEN 0
    ELSE 10 * DigitsToInt(SubSeq(s, 1, Len(s) - 1)) + DigitVal(s[Len(s)])

IntOf(s) ==
    IF s[1] = "-" THEN 0 - DigitsToInt(Tail(s))
    ELSE IF s[1] = "+" THEN DigitsToInt(Tail(s))
    ELSE DigitsToInt(s)

\* os.getenv(name, default): the value when set, else the default.
Getenv(value, default) == IF value = None THEN default ELSE value

\* str(n) for a natural number, left-padded with zeros to the given width
\* (the %02d / %04d / %06d of datetime.isoformat).
RECURSIVE Pad(_, _)
Pad(n, width) ==
    IF width = 0 THEN <<>>
    ELSE Append(Pad(n \div 10, width - 1), Digits[(n % 10) + 1])

\* str(n) for an integer (the {n} of an f-string).
RECURSIVE NatStr(_)
NatStr(n) == IF n < 10 THEN <<Digits[n + 1]>> ELSE Append(NatStr(n \div 10), Digits[(n % 10) + 1])

IntStr(n) == IF n < 0 THEN <<"-">> \o NatStr(0 - n) ELSE NatStr(n)

UpperCase == <<"A", "B", "C", "D", "E", "F", "G", "H", "I", "J", "K", "L", "M",
               "N", "O", "P", "Q", "R", "S", "T", "U", "V", "W", "X", "Y", "Z">>

LowerCase == <<"a", "b", "c", "d", "e", "f", "g", "h", "i", "j", "k", "l", "m",
               "n", "o", "p", "q", "r", "s", "t", "u", "v", "w", "x", "y", "z">>

\* str.lower, one character at a time.
LowerChar(c) ==
    IF \E i \in 1..26 : UpperCase[i] = c
    THEN LowerCase[CHOOSE i \in 1..26 : UpperCase[i] = c]
    ELSE c

Lower(s) == [i \in 1..Len(s) |-> LowerChar(s[i])]

\* s.split('.')[-1]: the text after the last dot, the whole string when
\* there is no dot.
LastSegment(s) ==
    LET dots == {i \in 1..Len(s) : s[i] = "."}
    IN  IF dots = {} THEN s
        ELSE SubSeq(s, (CHOOSE i \in dots : \A j \in dots : j <= i) + 1, Len(s))

Max2(a, b) == IF a >= b THEN a ELSE b

Abs(a) == IF a < 0 THEN 0 - a ELSE a

\* ------------------------------------------------------------------------
\* Exceptions and responses
\* ------------------------------------------------------------------------
NoExc == [type |-> "none", status |-> 0, detail |-> <<>>]

\* fastapi.HTTPException(status_code, detail)
HTTPException(status, detail) ==
    [type |-> "HTTPException", status |-> status, detail |-> detail]

\* Any other exception e; detail holds str(e).
Raised(type, msg) == [type |-> type, status |-> 0, detail |-> <<msg>>]

NoResponse ==
    [kind |-> "none", status |-> 0, detail |-> <<>>,
     analysis |-> None, timestamp |-> None, filename |-> None]

\* What the framework sends for an exception that leaves the handler: the
\* status and detail of an HTTPException, a bare 500 for anything else.
ErrorResponse(e) ==
    [kind |-> "error",
     status |-> IF e.type = "HTTPException" THEN e.status ELSE 500,
     detail |-> IF e.type = "HTTPException" THEN e.detail
                ELSE <<"Internal Server Error">>,
     analysis |-> None, timestamp |-> None, filename |-> None]

\* ------------------------------------------------------------------------
\* Inputs: uploads, environment, clock, remote outcomes
\* ------------------------------------------------------------------------
MiB == 1024 * 1024

\* Declared content types: absent, empty, image types, non-image types
\* ("text/plain", "image" without the slash, "Image/png").
ContentTypes ==
    { None, <<>>,
      <<"i", "m", "a", "g", "e", "/", "p", "n", "g">>,
      <<"i", "m", "a", "g", "e", "/">>,
      <<"t", "e", "x", "t", "/", "p", "l", "a", "i", "n">>,
      <<"i", "m", "a", "g", "e">>,
      <<"I", "m", "a", "g", "e", "/", "p", "n", "g">> }

\* Filenames: absent, "t.png", "a.JPG", "a.b.GIF", "c" (no extension).
Filenames ==
    { None,
      <<"t", ".", "p", "n", "g">>,
      <<"a", ".", "J", "P", "G">>,
      <<"a", ".", "b", ".", "G", "I", "F">>,
      <<"c">> }

\* Byte lengths around the limits of 1 MB and of the default 10 MB.
Lengths == {1, MiB, MiB + 1, 10 * MiB, 10 * MiB + 1}

\* Image formats PIL can open; it has no encoder for PSD.
Formats == {"PNG", "JPEG", "PSD"}

SaveFormats == {"PNG", "JPEG"}

\* Sides of an image in pixels: small ones and one above the default
\* MAX_IMAGE_DIMENSION.
Sides == (1..MaxSide) \cup {2049}

\* The uploaded bytes as PIL sees them: not an image at all (valid = FALSE),
\* or an image of a format and size whose pixel data is intact or truncated
\* (a truncated file opens and verifies, and fails when it is loaded).
NotAnImage ==
    [origin |-> "upload", valid |-> FALSE, format |-> "", w |-> 0, h |-> 0,
     intact |-> FALSE]

Contents ==
    {NotAnImage} \cup
    [origin : {"upload"}, valid : {TRUE}, format : Formats, w : Sides,
     h : Sides, intact : BOOLEAN]

NoBytes ==
    [origin |-> "none", valid |-> FALSE, format |-> "", w |-> 0, h |-> 0,
     intact |-> FALSE]

\* Values of MAX_UPLOAD_SIZE_MB in the environment: unset, "0", "1", "abc".
SizeEnv == { None, <<"0">>, <<"1">>, <<"a", "b", "c">> }

\* Values of MAX_IMAGE_DIMENSION: unset, "0", "1" .. str(MaxDim), "x".
DimEnv == { None, <<"x">> } \cup { IntStr(m) : m \in 0..MaxDim }

\* Values of OPENAI_API_KEY at import: unset or a key.
KeyEnv == { None, <<"k">> }

\* datetime.now(): a time with and one without microseconds.
Clock ==
    { [year |-> 2024, month |-> 1, day |-> 5, hour |-> 9, minute |-> 3,
       second |-> 7, microsecond |-> 0],
      [year |-> 2024, month |-> 12, day |-> 31, hour |-> 23, minute |-> 59,
       second |-> 59, microsecond |-> 1234] }

\* message.content of a completion: a text (possibly empty) or None.
Texts == { <<"Test analysis result">>, <<>> }

NoReply == [kind |-> "none", choices |-> <<>>, detail |-> <<>>]

\* What client.chat.completions.create does: returns a response with its
\* list of choices, or raises a provider error or another exception.
RemoteOutcomes ==
    { [kind |-> "response", choices |-> <<t>>, detail |-> <<>>] :
          t \in Texts \cup {None} }
    \cup { [kind |-> "response", choices |-> <<>>, detail |-> <<>>],
           [kind |-> "OpenAIError", choices |-> <<>>,
            detail |-> <<"Rate limit exceeded">>],
           [kind |-> "Exception", choices |-> <<>>,
            detail |-> <<"API Error">>] }

\* validate_image with the prefix "image" in place of "image/".
validate_image_no_slash(content_type) ==
    Truthy(content_type) /\ StartsWith(content_type, <<"i", "m", "a", "g", "e">>)

\* ------------------------------------------------------------------------
\* Pure functions of server.py and of the libraries it calls
\* ------------------------------------------------------------------------
\* validate_image(file)
validate_image(content_type) ==
    IF ~Truthy(content_type) \/ ~StartsWith(content_type, <<"i", "m", "a", "g", "e", "/">>)
    THEN FALSE
    ELSE TRUE

\* The size check with >= in place of >.
TooLargeOrEqual(length, max_size) == length >= max_size

\* len(image_bytes) > max_size
TooLarge(length, max_size) == length > max_size

\* The dimension check with >= in place of >.
NeedsDownscaleOrEqual(w, h, max_dimension) == Max2(w, h) >= max_dimension

\* max(img.size) > max_dimension
NeedsDownscale(w, h, max_dimension) == Max2(w, h) > max_dimension

\* Ceiling of num / den for num >= 0, den > 0.
CeilDiv(num, den) == IF num % den = 0 THEN num \div den ELSE (num \div den) + 1

\* Image.thumbnail((m, m)) on a w x h image with max(w, h) > m >= 1, aspect
\* = w / h compared in exact arithmetic.  round_aspect(v, key) is
\* max(min(floor(v), ceil(v), key = key), 1): of the floor and the ceiling
\* the one with the smaller key, the floor on a tie, and at least 1.
\*
\* x / y >= aspect (h >= w): the width becomes
\*   round_aspect(y * aspect, key = |aspect - n / y|)
ThumbnailWidth(w, h, m) ==
    LET f == (m * w) \div h
        c == CeilDiv(m * w, h)
    IN  Max2(IF Abs(w * m - f * h) <= Abs(w * m - c * h) THEN f ELSE c, 1)

\* otherwise (w > h): the height becomes
\*   round_aspect(x / aspect, key = 0 if n == 0 else |aspect - x / n|)
ThumbnailHeight(w, h, m) ==
    LET f == (m * h) \div w
        c == CeilDiv(m * h, w)
    IN  Max2(IF f = 0 \/ Abs(w * f - m * h) * c <= Abs(w * c - m * h) * f
             THEN f ELSE c, 1)

\* The size the image is resized to.
ThumbnailSize(w, h, m) ==
    IF h >= w THEN << ThumbnailWidth(w, h, m), m >>
    ELSE << m, ThumbnailHeight(w, h, m) >>

\* The outcome of lines 295-302 on an opened image when a downscale is
\* needed: the exception raised, or none.
\*   max_dimension <= 0: thumbnail divides by zero or resizes to a
\*   non-positive size; truncated pixel data: load fails; a format without
\*   an encoder: save fails.
DownscaleError(img, m) ==
    IF m = 0 THEN "division by zero"
    ELSE IF m < 0 THEN "height and width must be > 0"
    ELSE IF ~img.intact THEN "image file is truncated"
    ELSE IF (IF img.format # "" THEN img.format ELSE "PNG") \notin SaveFormats
         THEN "KeyError"
    ELSE ""

\* buffer.getvalue() after thumbnail and save: the re-encoded image.
Reencoded(img, m) ==
    [origin |-> "reencoded", valid |-> TRUE,
     format |-> IF img.format # "" THEN img.format ELSE "PNG",
     w |-> ThumbnailSize(img.w, img.h, m)[1],
     h |-> ThumbnailSize(img.w, img.h, m)[2],
     intact |-> TRUE]

\* encode_image_to_base64(image_bytes)
encode_image_to_base64(image_bytes) ==
    [encoding |-> "base64", charset |-> "utf-8", data |-> image_bytes]

\* image_format of analyze_trading_chart.
ImageFormat(filename) ==
    LET image_format == Lower(LastSegment(filename))
    IN  IF image_format = <<"j", "p", "g">> THEN <<"j", "p", "e", "g">>
        ELSE image_format

\* file.filename or "chart.png"
FilenameOrDefault(filename) ==
    IF Truthy(filename) THEN filename
    ELSE <<"c", "h", "a", "r", "t", ".", "p", "n", "g">>

TRADING_ANALYSIS_PROMPT == "You are a professional trading analyst ..."

MODEL == "gpt-4o"

MAX_TOKENS == 4000

\* temperature = TEMPERATURE_TENTHS / 10
TEMPERATURE_TENTHS == 3

\* The keyword arguments of client.chat.completions.create.
CreateArgs(image_bytes, filename) ==
    [model |-> MODEL,
     messages |->
        << [role |-> "user",
            content |->
               << [type |-> "text", text |-> TRADING_ANALYSIS_PROMPT,
                   image_url |-> <<>>],
                  [type |-> "image_url", text |-> "",
                   image_url |->
                      << [url |-> [scheme |-> "data",
                                   mime |-> <<"i", "m", "a", "g", "e", "/">>
                                            \o ImageFormat(filename),
                                   payload |-> encode_image_to_base64(image_bytes)],
                          detail |-> "high"] >>] >>] >>,
     max_tokens |-> MAX_TOKENS,
     temperature_tenths |-> TEMPERATURE_TENTHS]

\* The except clauses of analyze_trading_chart.
AnalyzerExcept(e) ==
    IF e.type = "OpenAIError"
    THEN HTTPException(500, <<"OpenAI API error: ">> \o e.detail)
    ELSE HTTPException(500, <<"Error analyzing image: ">> \o e.detail)

\* upload_chart without its inner except clause.
ImageExceptMissing(e) == e

\* The inner except clause of upload_chart.
ImageExcept(e) ==
    HTTPException(400, <<"Invalid or corrupted image file: ">> \o e.detail)

\* upload_chart without "except HTTPException: raise".
HandlerExceptRewrap(e) ==
    HTTPException(500, <<"Error processing image: ">> \o e.detail)

\* The outer except clauses of upload_chart.
HandlerExcept(e) ==
    IF e.type = "HTTPException" THEN e
    ELSE HTTPException(500, <<"Error processing image: ">> \o e.detail)

\* str(datetime) in place of datetime.isoformat(): a space for the "T".
isoformat_space(dt) ==
    Pad(dt.year, 4) \o <<"-">> \o Pad(dt.month, 2) \o <<"-">> \o Pad(dt.day, 2)
    \o <<" ">> \o Pad(dt.hour, 2) \o <<":">> \o Pad(dt.minute, 2)
    \o <<":">> \o Pad(dt.second, 2)
    \o (IF dt.microsecond # 0 THEN <<".">> \o Pad(dt.microsecond, 6) ELSE <<>>)

\* datetime.isoformat(): YYYY-MM-DDTHH:MM:SS, and .ffffff when the
\* microsecond is not 0.
isoformat(dt) ==
    Pad(dt.year, 4) \o <<"-">> \o Pad(dt.month, 2) \o <<"-">> \o Pad(dt.day, 2)
    \o <<"T">> \o Pad(dt.hour, 2) \o <<":">> \o Pad(dt.minute, 2)
    \o <<":">> \o Pad(dt.second, 2)
    \o (IF dt.microsecond # 0 THEN <<".">> \o Pad(dt.microsecond, 6) ELSE <<>>)

\* JSONResponse(content = result)
JSONResponse(analysis, timestamp, filename) ==
    [kind |-> "json", status |-> 200, detail |-> <<>>,
     analysis |-> analysis, timestamp |-> timestamp, filename |-> filename]

\* ------------------------------------------------------------------------
\* State
\* ------------------------------------------------------------------------
VARIABLES
    api_key,        \* openai.api_key, set at import from OPENAI_API_KEY
    pc,             \* where the handler of the current request stands
    file,           \* the UploadFile of the current request
    reads,          \* file.read() calls of the current request
    closes,         \* file.close() calls of the current request
    opens,          \* Image.open calls of the current request
    max_size,       \* upload_chart's max_size
    max_dimension,  \* upload_chart's max_dimension (-1 before it is read)
    image_bytes,    \* upload_chart's image_bytes
    calls,          \* the remote calls of the current request, in order
    reply,          \* what the remote call returned or raised
    analysis,       \* the text handed back by analyze_trading_chart
    result,         \* the value upload_chart returns
    exc,            \* the exception in flight inside the outer try
    response        \* what the client of the current request receives

vars ==
    << api_key, pc, file, reads, closes, opens, max_size, max_dimension,
       image_bytes, calls, reply, analysis, result, exc, response >>

NoFile == [content_type |-> None, filename |-> None, length |-> 0,
           content |-> NotAnImage]

Init ==
    /\ api_key \in KeyEnv
    /\ pc = "idle"
    /\ file = NoFile
    /\ reads = 0
    /\ closes = 0
    /\ opens = 0
    /\ max_size = 0
    /\ max_dimension = -1
    /\ image_bytes = NoBytes
    /\ calls = <<>>
    /\ reply = NoReply
    /\ analysis = None
    /\ result = NoResponse
    /\ exc = NoExc
    /\ response = NoResponse

\* A POST /api/upload request arrives with its multipart file; the
\* framework calls upload_chart(file).
Request ==
    /\ pc = "idle"
    /\ \E ct \in ContentTypes, fn \in Filenames, n \in Lengths, c \in Contents :
          file' = [content_type |-> ct, filename |-> fn, length |-> n,
                   content |-> c]
    /\ pc' = "validate"
    /\ UNCHANGED << api_key, reads, closes, opens, max_size, max_dimension,
                    image_bytes, calls, reply, analysis, result, exc,
                    response >>

\* The response has been sent: the request and everything it owned are
\* dropped, and the server waits for the next request.
Complete ==
    /\ pc = "done"
    /\ pc' = "idle"
    /\ file' = NoFile
    /\ reads' = 0
    /\ closes' = 0
    /\ opens' = 0
    /\ max_size' = 0
    /\ max_dimension' = -1
    /\ image_bytes' = NoBytes
    /\ calls' = <<>>
    /\ reply' = NoReply
    /\ analysis' = None
    /\ result' = NoResponse
    /\ exc' = NoExc
    /\ response' = NoResponse
    /\ UNCHANGED api_key

\* An exception leaves upload_chart outside its try statement: the
\* framework answers and the finally clause does not run.
Escapes(e) ==
    /\ response' = ErrorResponse(e)
    /\ pc' = "done"

\* An exception is raised inside the outer try statement.
Raises(e) ==
    /\ exc' = e
    /\ pc' = "except"

\* Lines 264-270: the file type check.
ValidateType ==
    /\ pc = "validate"
    /\ IF ~validate_image(file.content_type)
       THEN Escapes(HTTPException(400,
                <<"Invalid file type", ". Please upload an image file.">>))
       ELSE pc' = "limit" /\ UNCHANGED response
    /\ UNCHANGED << api_key, file, reads, closes, opens, max_size,
                    max_dimension, image_bytes, calls, reply, analysis, result, exc >>

\* Line 273: max_size = int(os.getenv("MAX_UPLOAD_SIZE_MB", "10")) * 1024 * 1024
ReadSizeLimit ==
    /\ pc = "limit"
    /\ \E env \in SizeEnv :
          LET value == Getenv(env, <<"1", "0">>)
          IN  IF IntParses(value)
              THEN /\ max_size' = IntOf(value) * 1024 * 1024
                   /\ pc' = "read"
                   /\ UNCHANGED response
              ELSE /\ Escapes(Raised("ValueError", "invalid literal for int()"))
                   /\ UNCHANGED max_size
    /\ UNCHANGED << api_key, file, reads, closes, opens, max_dimension,
                    image_bytes, calls, reply, analysis, result, exc >>

\* upload_chart reading the body once for the size check and once more for
\* the image.
ReadBodyTwice ==
    /\ pc = "read"
    /\ reads' = reads + 2
    /\ image_bytes' = file.content
    /\ pc' = "size"
    /\ UNCHANGED << api_key, file, closes, opens, max_size, max_dimension,
                    calls, reply, analysis, result, exc, response >>

\* Line 277: image_bytes = await file.read().  The transport may fail.
ReadBody ==
    /\ pc = "read"
    /\ reads' = reads + 1
    /\ \E ok \in BOOLEAN :
          IF ok
          THEN /\ image_bytes' = file.content
               /\ pc' = "size"
               /\ UNCHANGED exc
          ELSE /\ Raises(Raised("OSError", "read failed"))
               /\ UNCHANGED image_bytes
    /\ UNCHANGED << api_key, file, closes, opens, max_size, max_dimension,
                    calls, reply, analysis, result, response >>

\* Lines 279-284: the size check.
CheckSize ==
    /\ pc = "size"
    /\ IF TooLarge(file.length, max_size)
       THEN Raises(HTTPException(413,
                <<"File too large. Maximum size is ">>
                \o IntStr(max_size \div (1024 * 1024)) \o <<"MB">>))
       ELSE pc' = "verify" /\ UNCHANGED exc
    /\ UNCHANGED << api_key, file, reads, closes, opens, max_size,
                    max_dimension, image_bytes, calls, reply, analysis,
                    result, response >>

\* Lines 286-292: Image.open, img.verify and the second Image.open.  Bytes
\* that are no image make open or verify raise; the inner except clause
\* (lines 304-308) turns that into a 400.
VerifyImage ==
    /\ pc = "verify"
    /\ IF ~image_bytes.valid
       THEN /\ opens' = opens + 1
            /\ Raises(ImageExcept(Raised("UnidentifiedImageError",
                                         "cannot identify image file")))
       ELSE /\ opens' = opens + 2
            /\ pc' = "downscale"
            /\ UNCHANGED exc
    /\ UNCHANGED << api_key, file, reads, closes, max_size, max_dimension,
                    image_bytes, calls, reply, analysis, result, response >>

\* Lines 294-302: the optional downscale, and the inner except clause
\* (lines 304-308) for what it raises.
Downscale ==
    /\ pc = "downscale"
    /\ \E env \in DimEnv :
          LET value == Getenv(env, <<"2", "0", "4", "8">>)
              m == IntOf(value)
              img == image_bytes
          IN  IF ~IntParses(value)
              THEN /\ Raises(ImageExcept(Raised("ValueError",
                                                "invalid literal for int()")))
                   /\ UNCHANGED << max_dimension, image_bytes >>
              ELSE /\ max_dimension' = m
                   /\ IF NeedsDownscale(img.w, img.h, m)
                      THEN IF DownscaleError(img, m) # ""
                           THEN /\ Raises(ImageExcept(Raised("Exception",
                                                 DownscaleError(img, m))))
                                /\ UNCHANGED image_bytes
                           ELSE /\ image_bytes' = Reencoded(img, m)
                                /\ pc' = "analyze"
                                /\ UNCHANGED exc
                      ELSE /\ pc' = "analyze"
                           /\ UNCHANGED << image_bytes, exc >>
    /\ UNCHANGED << api_key, file, reads, closes, opens, max_size, calls,
                    reply, analysis, result, response >>

\* Line 312 and lines 165-184: analyze_trading_chart is entered, encodes
\* the image and creates the client.  openai.OpenAI(api_key = None) raises
\* OpenAIError when no key is configured; the except clause of lines
\* 221-227 turns it into a 500.
CreateClient ==
    /\ pc = "analyze"
    /\ IF api_key = None
       THEN Raises(AnalyzerExcept(Raised("OpenAIError",
                "The api_key client option must be set")))
       ELSE pc' = "call" /\ UNCHANGED exc
    /\ UNCHANGED << api_key, file, reads, closes, opens, max_size,
                    max_dimension, image_bytes, calls, reply, analysis,
                    result, response >>

\* analyze_trading_chart retrying a failed remote call once.
RemoteCallRetry ==
    /\ pc = "call"
    /\ \E out \in RemoteOutcomes :
          /\ reply' = out
          /\ IF out.kind = "response"
             THEN /\ calls' = Append(calls, CreateArgs(image_bytes,
                                         FilenameOrDefault(file.filename)))
                  /\ pc' = "extract"
                  /\ UNCHANGED exc
             ELSE /\ calls' = calls \o
                         << CreateArgs(image_bytes, FilenameOrDefault(file.filename)),
                            CreateArgs(image_bytes, FilenameOrDefault(file.filename)) >>
                  /\ Raises(AnalyzerExcept(
                         [type |-> out.kind, status |-> 0, detail |-> out.detail]))
    /\ UNCHANGED << api_key, file, reads, closes, opens, max_size,
                    max_dimension, image_bytes, analysis, result, response >>

\* Lines 186-208: the remote call, and the except clauses of lines 221-236
\* for what it raises.
RemoteCall ==
    /\ pc = "call"
    /\ calls' = Append(calls,
                       CreateArgs(image_bytes, FilenameOrDefault(file.filename)))
    /\ \E out \in RemoteOutcomes :
          /\ reply' = out
          /\ IF out.kind = "response"
             THEN pc' = "extract" /\ UNCHANGED exc
             ELSE Raises(AnalyzerExcept(
                      [type |-> out.kind, status |-> 0, detail |-> out.detail]))
    /\ UNCHANGED << api_key, file, reads, closes, opens, max_size,
                    max_dimension, image_bytes, analysis, result, response >>

\* Lines 210-219: analysis = response.choices[0].message.content, its
\* length is printed and it is returned; an empty list of choices or a
\* content of None raises, and lines 228-236 turn that into a 500.
ExtractAnalysis ==
    /\ pc = "extract"
    /\ IF Len(reply.choices) = 0
       THEN /\ Raises(AnalyzerExcept(Raised("IndexError",
                                            "list index out of range")))
            /\ UNCHANGED analysis
       ELSE IF reply.choices[1] = None
       THEN /\ Raises(AnalyzerExcept(Raised("TypeError",
                         "object of type 'NoneType' has no len()")))
            /\ UNCHANGED analysis
       ELSE /\ analysis' = reply.choices[1]
            /\ pc' = "result"
            /\ UNCHANGED exc
    /\ UNCHANGED << api_key, file, reads, closes, opens, max_size,
                    max_dimension, image_bytes, calls, reply, result,
                    response >>

\* Lines 314-324: the result and its JSON response.
BuildResult ==
    /\ pc = "result"
    /\ \E now \in Clock :
          result' = JSONResponse(analysis, isoformat(now), file.filename)
    /\ pc' = "finally"
    /\ UNCHANGED << api_key, file, reads, closes, opens, max_size,
                    max_dimension, image_bytes, calls, reply, analysis, exc,
                    response >>

\* Lines 326-332: the outer except clauses.
Except ==
    /\ pc = "except"
    /\ exc' = HandlerExcept(exc)
    /\ pc' = "finally"
    /\ UNCHANGED << api_key, file, reads, closes, opens, max_size,
                    max_dimension, image_bytes, calls, reply, analysis,
                    result, response >>

\* Lines 333-334: the finally clause closes the file; then the handler
\* returns its result or the exception leaves it.
Finally ==
    /\ pc = "finally"
    /\ closes' = closes + 1
    /\ response' = IF exc = NoExc THEN result ELSE ErrorResponse(exc)
    /\ pc' = "done"
    /\ UNCHANGED << api_key, file, reads, opens, max_size, max_dimension,
                    image_bytes, calls, reply, analysis, result, exc >>

Next ==
    \/ Request
    \/ ValidateType
    \/ ReadSizeLimit
    \/ ReadBody
    \/ CheckSize
    \/ VerifyImage
    \/ Downscale
    \/ CreateClient
    \/ RemoteCall
    \/ ExtractAnalysis
    \/ BuildResult
    \/ Except
    \/ Finally
    \/ Complete

Spec == Init /\ [][Next]_vars

\* ------------------------------------------------------------------------
\* Properties
\* ------------------------------------------------------------------------
Done == pc = "done"

\* The request got as far as opening the image twice: it passed the
\* content-type check, the size check and the decode check.
PassedChecks == opens = 2

\* The downscale step ran and raised nothing.
DownscaleDone ==
    /\ max_dimension >= 0
    /\ \/ image_bytes.origin = "reencoded"
       \/ Max2(file.content.w, file.content.h) <= max_dimension

IsImageType(ct) ==
    /\ ct # None
    /\ Len(ct) >= 6
    /\ SubSeq(ct, 1, 6) = <<"i", "m", "a", "g", "e", "/">>

\* The body was read and the size check let it through.
SizeAccepted == image_bytes.origin # "none" /\ file.length <= max_size

\* C1 as stated: when a request has ended, it has made exactly one remote
\* call if it passed the content-type, size and decode checks, and none
\* otherwise.
C1_OneCallIfChecksPass ==
    Done => Len(calls) = (IF PassedChecks THEN 1 ELSE 0)

\* C1 amended: no request makes two remote calls; a request that a check
\* rejected makes none; a request that passed the checks makes exactly one
\* provided the downscale step raised nothing and an API key is configured
\* (otherwise none); a failed call is not repeated.
C1_AtMostOneCall ==
    /\ Len(calls) <= 1
    /\ Done /\ ~PassedChecks => Len(calls) = 0
    /\ Done /\ PassedChecks =>
          Len(calls) = (IF DownscaleDone /\ api_key # None THEN 1 ELSE 0)
    /\ reply.kind \in {"OpenAIError", "Exception"} => Len(calls) = 1

C1_Witness ==
    /\ Done
    /\ reply.kind = "OpenAIError"
    /\ Len(calls) = 1
    /\ response.status = 500

\* C2: when a request has ended, file.close() has been performed.
C2_AlwaysClosed == Done => closes >= 1

\* C3 as stated: when a request has ended, whatever its status, the body
\* has been read exactly once.
C3_ReadExactlyOnce == Done => reads = 1

\* C3 amended: the body is read at most once per request; it is read
\* exactly once by every request whose content type is accepted and whose
\* size limit is read from the environment, whether it ends in 200, 400,
\* 413 or 500, and not at all by a request rejected before that.
C3_ReadAtMostOnce ==
    /\ reads <= 1
    /\ Done =>
          (reads = 0 <=>
              \/ ~IsImageType(file.content_type)
              \/ response.detail = <<"Internal Server Error">>)
    /\ Done /\ response.status \in {200, 413} => reads = 1
    /\ Done /\ response.status \in {400, 500} /\ closes = 1 => reads = 1

C3_Witness ==
    /\ Done
    /\ reads = 1
    /\ response.status = 400
    /\ opens = 1

\* C4: an upload with an image content type whose length exceeds the limit
\* is answered 413 with no image opened and no remote call; an upload whose
\* length equals the limit is not answered 413 and goes on to decoding.
C4_TooLargeIs413 ==
    Done /\ IsImageType(file.content_type) /\ image_bytes.origin # "none" =>
        /\ file.length > max_size =>
              /\ response.status = 413
              /\ opens = 0
              /\ calls = <<>>
        /\ file.length = max_size =>
              /\ response.status # 413
              /\ opens >= 1

C4_Witness ==
    /\ Done
    /\ file.length = max_size + 1
    /\ max_size = 10 * MiB
    /\ response.status = 413

\* C5 as stated: every upload whose bytes fail image decoding is answered
\* 400 with an invalid-or-corrupted-image detail and makes no remote call.
C5_UndecodableIs400 ==
    Done /\ ~file.content.valid =>
        /\ response.status = 400
        /\ response.detail[1] = "Invalid or corrupted image file: "
        /\ calls = <<>>

\* C5 amended: every upload with an image content type and a length within
\* the limit whose bytes fail image decoding is answered 400 with an
\* invalid-or-corrupted-image detail that carries the decoder's message,
\* and makes no remote call.
C5_UndecodableAcceptedIs400 ==
    Done /\ IsImageType(file.content_type) /\ SizeAccepted
         /\ ~file.content.valid =>
        /\ response.status = 400
        /\ response.detail =
              <<"Invalid or corrupted image file: ", "cannot identify image file">>
        /\ calls = <<>>

C5_Witness ==
    /\ Done
    /\ ~file.content.valid
    /\ opens = 1
    /\ response.status = 400

\* C6: an upload whose content type is absent or does not begin with
\* "image/" is answered 400 with a detail containing "Invalid file type",
\* whatever its bytes and length, and makes no remote call.
C6_NonImageIs400 ==
    Done /\ ~IsImageType(file.content_type) =>
        /\ response.status = 400
        /\ \E i \in 1..Len(response.detail) :
              response.detail[i] = "Invalid file type"
        /\ calls = <<>>

C6_Witness ==
    /\ Done
    /\ file.content_type = <<"i", "m", "a", "g", "e">>
    /\ file.content.valid
    /\ file.length = 10 * MiB + 1
    /\ response.status = 400

\* The remote call raised, or returned a response without a usable text.
RemoteRaised == reply.kind \in {"OpenAIError", "Exception"}

RemoteMalformed ==
    /\ reply.kind = "response"
    /\ \/ Len(reply.choices) = 0
       \/ reply.choices[1] = None

\* C7: when the remote call raises (a provider error, another exception, a
\* malformed response), the request is answered 500, the detail is the
\* requester's prefix followed by the error's message (so the requester's
\* 500 reached the client as it was raised, not wrapped again), and the
\* response carries no analysis.
C7_RemoteErrorIs500 ==
    /\ Done /\ RemoteRaised =>
          /\ response.kind = "error"
          /\ response.status = 500
          /\ response.analysis = None
          /\ response.detail =
                << (IF reply.kind = "OpenAIError" THEN "OpenAI API error: "
                    ELSE "Error analyzing image: ") >> \o reply.detail
    /\ Done /\ RemoteMalformed =>
          /\ response.kind = "error"
          /\ response.status = 500
          /\ response.analysis = None
          /\ Len(response.detail) = 2
          /\ response.detail[1] = "Error analyzing image: "

C7_Witness ==
    /\ Done
    /\ reply.kind = "Exception"
    /\ response.status = 500
    /\ response.detail = <<"Error analyzing image: ", "API Error">>

\* The image inside the data URI of a remote call.
SentImage(call) == call.messages[1].content[2].image_url[1].url.payload.data

\* C8: for a maximum dimension m >= 1, every remote call carries, when the
\* uploaded image's largest side exceeds m, a re-encoded image whose
\* largest side is at most m, whose sides are at least 1 and whose aspect
\* ratio is the original's up to the rounding of one side to a whole pixel,
\* and otherwise the uploaded bytes unchanged; and a remote call that
\* succeeds is answered 200.
C8_DownscaledToLimit ==
    /\ \A i \in 1..Len(calls) :
          LET sent == SentImage(calls[i])
              w == file.content.w
              h == file.content.h
              m == max_dimension
          IN  /\ m >= 1 /\ Max2(w, h) > m =>
                    /\ sent.origin = "reencoded"
                    /\ Max2(sent.w, sent.h) <= m
                    /\ sent.w >= 1
                    /\ sent.h >= 1
                    /\ Abs(sent.w * h - sent.h * w) < Max2(w, h)
                    /\ sent.format = file.content.format
              /\ m >= 1 /\ Max2(w, h) <= m => sent = file.content
    /\ Done /\ reply.kind = "response" /\ ~RemoteMalformed =>
          response.status = 200

C8_Witness ==
    /\ Done
    /\ response.status = 200
    /\ file.content.w = 2049
    /\ file.content.h = 2
    /\ max_dimension = 2
    /\ Len(calls) = 1
    /\ SentImage(calls[1]).w = 2
    /\ SentImage(calls[1]).h = 1

\* A timestamp of the form YYYY-MM-DDTHH:MM:SS or YYYY-MM-DDTHH:MM:SS.ffffff.
IsISO8601(t) ==
    /\ t # None
    /\ Len(t) \in {19, 26}
    /\ \A i \in 1..Len(t) :
          IF i \in {5, 8} THEN t[i] = "-"
          ELSE IF i = 11 THEN t[i] = "T"
          ELSE IF i \in {14, 17} THEN t[i] = ":"
          ELSE IF i = 20 THEN t[i] = "."
          ELSE IsDigit(t[i])

\* C9: a well-formed image with an image content type, within the size and
\* dimension limits, whose remote call returns the text T, is answered 200
\* with analysis T, an ISO-8601 timestamp and the upload's filename.
C9_SuccessResponse ==
    Done /\ IsImageType(file.content_type) /\ SizeAccepted /\ file.content.valid
         /\ max_dimension >= 0
         /\ Max2(file.content.w, file.content.h) <= max_dimension
         /\ reply.kind = "response" /\ ~RemoteMalformed =>
        /\ response.kind = "json"
        /\ response.status = 200
        /\ response.analysis = reply.choices[1]
        /\ IsISO8601(response.timestamp)
        /\ response.filename = file.filename

C9_Witness ==
    /\ Done
    /\ response.status = 200
    /\ response.analysis = <<"Test analysis result">>
    /\ response.filename = <<"t", ".", "p", "n", "g">>
    /\ Len(response.timestamp) = 26
    /\ image_bytes.origin = "upload"

\* C10: every remote call uses model "gpt-4o", max_tokens 2000 and
\* temperature 0.7, and carries one message, of role "user", whose content
\* is a text part followed by an image_url part.
C10_CallParameters ==
    \A i \in 1..Len(calls) :
        /\ calls[i].model = "gpt-4o"
        /\ calls[i].max_tokens = 2000
        /\ calls[i].temperature_tenths = 7
        /\ Len(calls[i].messages) = 1
        /\ calls[i].messages[1].role = "user"
        /\ Len(calls[i].messages[1].content) = 2
        /\ calls[i].messages[1].content[1].type = "text"
        /\ calls[i].messages[1].content[2].type = "image_url"

\* The format label inside the data URI of a remote call: what follows
\* "image/" in its media type.
SentLabel(call) ==
    LET mime == call.messages[1].content[2].image_url[1].url.mime
    IN  SubSeq(mime, 7, Len(mime))

HasDot(filename) == \E i \in 1..Len(filename) : filename[i] = "."

\* The label the filename should give: "png" for a missing filename and for
\* a filename without a dot; otherwise the text after the last dot in lower
\* case, with "jpg" replaced by "jpeg".
ClaimedLabel(filename) ==
    IF filename = None \/ ~HasDot(filename) THEN <<"p", "n", "g">>
    ELSE LET last == CHOOSE i \in 1..Len(filename) :
                        /\ filename[i] = "."
                        /\ \A j \in (i + 1)..Len(filename) : filename[j] # "."
             ext == [k \in 1..(Len(filename) - last) |->
                        LowerChar(filename[last + k])]
         IN  IF ext = <<"j", "p", "g">> THEN <<"j", "p", "e", "g">> ELSE ext

\* C11: the format label of every remote call is the one the upload's
\* filename should give: the lower-cased text after the last dot, "jpeg"
\* for "jpg", and "png" for a filename without a dot or a missing filename.
C11_LabelFromFilename ==
    \A i \in 1..Len(calls) : SentLabel(calls[i]) = ClaimedLabel(file.filename)

\* C11 holds of every filename that is missing or has a dot.
C11_LabelWhenDotted ==
    \A i \in 1..Len(calls) :
        file.filename = None \/ HasDot(file.filename) =>
            SentLabel(calls[i]) = ClaimedLabel(file.filename)

\* The label of an image format as a data URI names it.
FormatLabel(format) ==
    IF format = "PNG" THEN <<"p", "n", "g">>
    ELSE IF format = "JPEG" THEN <<"j", "p", "e", "g">>
    ELSE IF format = "PSD" THEN <<"p", "s", "d">>
    ELSE <<>>

\* C12: the bytes of every remote call are an image that opens and
\* verifies, and its encoding format is the one the data URI declares,
\* whether the bytes are the upload's or were re-encoded after a resize.
C12_BytesMatchLabel ==
    \A i \in 1..Len(calls) :
        /\ SentImage(calls[i]).valid
        /\ FormatLabel(SentImage(calls[i]).format) = SentLabel(calls[i])

\* C12's decodable part alone holds: every remote call carries bytes that
\* open and verify as an image.
C12_BytesAreAnImage ==
    \A i \in 1..Len(calls) : SentImage(calls[i]).valid

\* C12 restricted to uploads whose filename is missing or has an extension
\* (where the label is the one C11 describes): the format of the bytes is
\* the declared one.
C12_BytesMatchLabelWithExtension ==
    \A i \in 1..Len(calls) :
        file.filename = None \/ HasDot(file.filename) =>
            FormatLabel(SentImage(calls[i]).format) = SentLabel(calls[i])

====
